---- MODULE Spec2Model ----
(***************************************************************************)
(* The TryIterator trait of try_iterator.rs: try_all, try_any,             *)
(* try_position and try_rposition, called through `&mut self` on a         *)
(* core::slice::Iter or on a std::iter::Cycle over one.                    *)
(*                                                                         *)
(* One action per call and one per loop iteration of each method.  The     *)
(* iterator is its backing slice `items` and the two cursors of            *)
(* slice::Iter, `ptr` and `end`: next() yields items[ptr+1] and advances   *)
(* ptr, next_back() yields items[end] and retreats end.                    *)
(***************************************************************************)
EXTENDS Integers, Sequences, FiniteSets, TLC

\* ---------------------------------------------------------------- bounds
MaxLen == 3          \* longest backing slice
MaxCount == 5        \* cap of Enumerate's counter and of the recorded calls

\* ------------------------------------------------------------ value sets
Elems == {"foo", "ayy", "bar"}
Errors == {4444, 7777}

Ok(v) == [tag |-> "Ok", val |-> v]
Err(e) == [tag |-> "Err", val |-> e]
NoResult == [tag |-> "Pending", val |-> 0]

\* Option<usize> as a sequence of length at most one
Some(i) == <<i>>
None == <<>>

\* what a predicate F: FnMut(Self::Item) -> Result<bool, E> may return
Outcomes == {Ok(TRUE), Ok(FALSE)} \cup {Err(e) : e \in Errors}
Predicates == [Elems -> Outcomes]

Ops == {"try_all", "try_any", "try_position", "try_rposition"}
Kinds == {"slice", "cycle"}
Terminal == {"Decided", "Failed"}

SeqsUpTo(S, n) == UNION {[1..k -> S] : k \in 0..n}

\* The predicates range over every function of the element, so a slice is
\* taken up to a renaming of its elements: they are named in the order of
\* their first appearance ("foo", then "ayy", then "bar").
Rank == [x \in Elems |-> CASE x = "foo" -> 1 [] x = "ayy" -> 2 [] OTHER -> 3]
FirstAppearance(s) ==
    \A i \in 1..Len(s) :
        Rank[s[i]] = 1 \/ \E j \in 1..(i - 1) : Rank[s[j]] = Rank[s[i]] - 1
Slices == {s \in SeqsUpTo(Elems, MaxLen) : FirstAppearance(s)}

VARIABLES
    items,      \* the slice the iterator was made from
    kind,       \* "slice": slice::Iter, "cycle": Cycle<slice::Iter>
    ptr,        \* slice::Iter front cursor: elements taken from the front
    end,        \* slice::Iter back cursor: items[ptr+1..end] remain
    phase,      \* "Idle" before the first call, then Scanning/Decided/Failed
    op,         \* the method being called
    predicate,  \* the predicate of the call
    count,      \* Enumerate::count of try_position / try_rposition
    result,     \* the value the call returned
    seen,       \* the elements the predicate was invoked with, in order
    ptr0,       \* ptr when the call started
    end0        \* end when the call started

vars == <<items, kind, ptr, end, phase, op, predicate, count, result, seen, ptr0, end0>>

\* -------------------------------------------------------------- iterators
NoItem(p, e) == [some |-> FALSE, item |-> "", ptr |-> p, end |-> e]

\* core::slice::Iter::next
SliceNext(p, e) ==
    IF p = e THEN NoItem(p, e)
    ELSE [some |-> TRUE, item |-> items[p + 1], ptr |-> p + 1, end |-> e]

\* core::slice::Iter::next_back
SliceNextBack(p, e) ==
    IF p = e THEN NoItem(p, e)
    ELSE [some |-> TRUE, item |-> items[e], ptr |-> p, end |-> e - 1]

\* std::iter::Cycle::next: on None, restart from a clone of the original
CycleNext(p, e) ==
    LET y == SliceNext(p, e)
    IN  IF y.some THEN y ELSE SliceNext(0, Len(items))

\* <&mut Self as Iterator>::next, as `for item in self` calls it
IterNext(p, e) ==
    IF kind = "cycle" THEN CycleNext(p, e) ELSE SliceNext(p, e)

\* ExactSizeIterator::len of slice::Iter
IterLen(p, e) == e - p

\* mutant: the counter carries on from the elements already taken
EnumerateNew_absolute == ptr

\* Enumerate::new: the counter of self.enumerate() starts at zero
EnumerateNew == 0

\* Enumerate::next: (count, item), count += 1
EnumerateNext(c, p, e) ==
    LET a == IterNext(p, e)
    IN  [some |-> a.some, idx |-> c, item |-> a.item,
         ptr |-> a.ptr, end |-> a.end, count |-> IF a.some THEN c + 1 ELSE c]

\* mutant: self.rev().enumerate(), the index counted from the back
EnumerateRevNext_revfirst(c, p, e) ==
    LET a == SliceNextBack(p, e)
    IN  [some |-> a.some, idx |-> c, item |-> a.item,
         ptr |-> a.ptr, end |-> a.end, count |-> IF a.some THEN c + 1 ELSE c]

\* Rev<Enumerate<_>>::next = Enumerate::next_back: (count + len, item)
EnumerateRevNext(c, p, e) ==
    LET a == SliceNextBack(p, e)
    IN  [some |-> a.some, idx |-> c + IterLen(a.ptr, a.end), item |-> a.item,
         ptr |-> a.ptr, end |-> a.end, count |-> c]

\* --------------------------------------------------- the four loop bodies
Continue == [phase |-> "Scanning", result |-> NoResult]
Return(r) == [phase |-> IF r.tag = "Err" THEN "Failed" ELSE "Decided", result |-> r]

\* mutant: the negation dropped, if predicate(item)? { return Ok(false) }
try_all_item_nonegation(r) ==
    IF r.tag = "Err" THEN Return(Err(r.val))
    ELSE IF r.val THEN Return(Ok(FALSE))
    ELSE Continue

\* mutant: no early return on a non-match
try_all_item_noshort(r) ==
    IF r.tag = "Err" THEN Return(Err(r.val))
    ELSE Continue

\* try_all: if !predicate(item)? { return Ok(false) }
try_all_item(r) ==
    IF r.tag = "Err" THEN Return(Err(r.val))
    ELSE IF ~r.val THEN Return(Ok(FALSE))
    ELSE Continue

\* mutant: Ok(false) after the loop
try_all_end_false == Return(Ok(FALSE))

\* try_all: Ok(true) after the loop
try_all_end == Return(Ok(TRUE))

\* mutant: a negation added, if !predicate(item)? { return Ok(true) }
try_any_item_negated(r) ==
    IF r.tag = "Err" THEN Return(Err(r.val))
    ELSE IF ~r.val THEN Return(Ok(TRUE))
    ELSE Continue

\* mutant: no early return on a match
try_any_item_noreturn(r) ==
    IF r.tag = "Err" THEN Return(Err(r.val))
    ELSE Continue

\* try_any: if predicate(item)? { return Ok(true) }
try_any_item(r) ==
    IF r.tag = "Err" THEN Return(Err(r.val))
    ELSE IF r.val THEN Return(Ok(TRUE))
    ELSE Continue

\* try_any: Ok(false) after the loop
try_any_end == Return(Ok(FALSE))

\* mutant: a one-based index
try_position_item_onebased(idx, r) ==
    IF r.tag = "Err" THEN Return(Err(r.val))
    ELSE IF r.val THEN Return(Ok(Some(idx + 1)))
    ELSE Continue

\* mutant: no early return on a match
try_position_item_nobreak(idx, r) ==
    IF r.tag = "Err" THEN Return(Err(r.val))
    ELSE Continue

\* try_position: if predicate(item)? { return Ok(Some(idx)) }
try_position_item(idx, r) ==
    IF r.tag = "Err" THEN Return(Err(r.val))
    ELSE IF r.val THEN Return(Ok(Some(idx)))
    ELSE Continue

\* try_position: Ok(None) after the loop
try_position_end == Return(Ok(None))

\* mutant: the failure swallowed, predicate(item).unwrap_or(false)
try_rposition_item_swallow(idx, r) ==
    IF r.tag = "Err" THEN Continue
    ELSE IF r.val THEN Return(Ok(Some(idx)))
    ELSE Continue

\* try_rposition: if predicate(item)? { return Ok(Some(idx)) }
try_rposition_item(idx, r) ==
    IF r.tag = "Err" THEN Return(Err(r.val))
    ELSE IF r.val THEN Return(Ok(Some(idx)))
    ELSE Continue

\* try_rposition: Ok(None) after the loop
try_rposition_end == Return(Ok(None))

\* the predicate is invoked with the item; the invocation is recorded
Record(s, item) == IF Len(s) < MaxCount THEN Append(s, item) ELSE s

\* ------------------------------------------------------------------ Init
Init ==
    /\ items \in Slices
    /\ kind \in Kinds
    /\ ptr = 0
    /\ end = Len(items)
    /\ phase = "Idle"
    /\ op = "none"
    /\ predicate = [x \in Elems |-> Ok(FALSE)]
    /\ count = 0
    /\ result = NoResult
    /\ seen = <<>>
    /\ ptr0 = 0
    /\ end0 = Len(items)

\* --------------------------------------------------------------- actions
\* a call of one of the four methods with a predicate; try_rposition needs
\* Self: ExactSizeIterator + DoubleEndedIterator, which Cycle is not
Call(o, f) ==
    /\ phase \in {"Idle"} \cup Terminal
    /\ o = "try_rposition" => kind = "slice"
    /\ op' = o
    /\ predicate' = f
    /\ phase' = "Scanning"
    /\ count' = IF o \in {"try_position", "try_rposition"} THEN EnumerateNew ELSE 0
    /\ result' = NoResult
    /\ seen' = <<>>
    /\ ptr0' = ptr
    /\ end0' = end
    /\ UNCHANGED <<items, kind, ptr, end>>

\* one iteration of `for item in self` in try_all
TryAllStep ==
    /\ phase = "Scanning"
    /\ op = "try_all"
    /\ LET n == IterNext(ptr, end)
           d == IF n.some THEN try_all_item(predicate[n.item]) ELSE try_all_end
       IN  /\ ptr' = n.ptr
           /\ end' = n.end
           /\ seen' = IF n.some THEN Record(seen, n.item) ELSE seen
           /\ phase' = d.phase
           /\ result' = d.result
    /\ UNCHANGED <<items, kind, op, predicate, count, ptr0, end0>>

\* one iteration of `for item in self` in try_any
TryAnyStep ==
    /\ phase = "Scanning"
    /\ op = "try_any"
    /\ LET n == IterNext(ptr, end)
           d == IF n.some THEN try_any_item(predicate[n.item]) ELSE try_any_end
       IN  /\ ptr' = n.ptr
           /\ end' = n.end
           /\ seen' = IF n.some THEN Record(seen, n.item) ELSE seen
           /\ phase' = d.phase
           /\ result' = d.result
    /\ UNCHANGED <<items, kind, op, predicate, count, ptr0, end0>>

\* one iteration of `for (idx, item) in self.enumerate()` in try_position
TryPositionStep ==
    /\ phase = "Scanning"
    /\ op = "try_position"
    /\ count < MaxCount
    /\ LET n == EnumerateNext(count, ptr, end)
           d == IF n.some THEN try_position_item(n.idx, predicate[n.item])
                ELSE try_position_end
       IN  /\ ptr' = n.ptr
           /\ end' = n.end
           /\ count' = n.count
           /\ seen' = IF n.some THEN Record(seen, n.item) ELSE seen
           /\ phase' = d.phase
           /\ result' = d.result
    /\ UNCHANGED <<items, kind, op, predicate, ptr0, end0>>

\* one iteration of `for (idx, item) in self.enumerate().rev()` in try_rposition
TryRPositionStep ==
    /\ phase = "Scanning"
    /\ op = "try_rposition"
    /\ LET n == EnumerateRevNext(count, ptr, end)
           d == IF n.some THEN try_rposition_item(n.idx, predicate[n.item])
                ELSE try_rposition_end
       IN  /\ ptr' = n.ptr
           /\ end' = n.end
           /\ count' = n.count
           /\ seen' = IF n.some THEN Record(seen, n.item) ELSE seen
           /\ phase' = d.phase
           /\ result' = d.result
    /\ UNCHANGED <<items, kind, op, predicate, ptr0, end0>>

Step == TryAllStep \/ TryAnyStep \/ TryPositionStep \/ TryRPositionStep

Next ==
    \/ \E o \in Ops, f \in Predicates : Call(o, f)
    \/ TryAllStep
    \/ TryAnyStep
    \/ TryPositionStep
    \/ TryRPositionStep

Spec == Init /\ [][Next]_vars

\* a call runs on the calling thread with nothing to wait for: a loop
\* iteration that can be taken is taken
LiveSpec == Init /\ [][Next]_vars /\ WF_vars(Step)

TypeOK ==
    /\ Len(items) <= MaxLen
    /\ kind \in Kinds
    /\ ptr \in 0..Len(items)
    /\ end \in ptr..Len(items)
    /\ phase \in {"Idle", "Scanning"} \cup Terminal
    /\ op \in Ops \cup {"none"}
    /\ predicate \in Predicates
    /\ count \in 0..MaxCount
    /\ Len(seen) <= MaxCount

\* ------------------------------------------------- vocabulary of the claims
IsTrue(r) == r.tag = "Ok" /\ r.val = TRUE
IsFalse(r) == r.tag = "Ok" /\ r.val = FALSE
IsErr(r) == r.tag = "Err"

\* the outcome that ends the loop of method o
Decisive(o, r) ==
    \/ IsErr(r)
    \/ o = "try_all" /\ IsFalse(r)
    \/ o # "try_all" /\ IsTrue(r)

Reverse(s) == [i \in 1..Len(s) |-> s[Len(s) + 1 - i]]

\* the elements the iterator held when the call started, and the order in
\* which the method of the call visits them
Start == SubSeq(items, ptr0 + 1, end0)
ScanOrder == IF op = "try_rposition" THEN Reverse(Start) ELSE Start
Remaining == SubSeq(items, ptr + 1, end)

\* position in s of the first element whose outcome ends the loop, 0 if none
FirstDecisive(s) ==
    LET I == {i \in 1..Len(s) : Decisive(op, predicate[s[i]])}
    IN  IF I = {} THEN 0 ELSE CHOOSE i \in I : \A j \in I : i <= j

\* the number of elements a scan of ScanOrder examines
StopAt ==
    LET k == FirstDecisive(ScanOrder)
    IN  IF k = 0 THEN Len(Start) ELSE k

Finished(o) == phase \in Terminal /\ kind = "slice" /\ op = o
IsSome(r) == r.tag = "Ok" /\ Len(r.val) = 1

\* C1: try_all on a finite sequence returns the outcome of the first element
\* whose predicate result is not Ok(true) (that error, or Ok(false)), and
\* Ok(true) when every element gives Ok(true).
C1_TryAllResult ==
    Finished("try_all") =>
        LET k == FirstDecisive(Start)
        IN  IF k = 0 THEN result = Ok(TRUE)
            ELSE IF IsErr(predicate[Start[k]]) THEN result = predicate[Start[k]]
            ELSE result = Ok(FALSE)

\* an Ok(false) placed before an erroring element won over the error
C1_Witness ==
    /\ Finished("try_all")
    /\ result = Ok(FALSE)
    /\ \E i, j \in 1..Len(Start) :
        i < j /\ IsFalse(predicate[Start[i]]) /\ IsErr(predicate[Start[j]])

\* C2: try_any on a finite sequence returns the outcome of the first element
\* whose predicate result is not Ok(false) (Ok(true), or that error), and
\* Ok(false) when every element gives Ok(false).
C2_TryAnyResult ==
    Finished("try_any") =>
        LET k == FirstDecisive(Start)
        IN  IF k = 0 THEN result = Ok(FALSE)
            ELSE IF IsErr(predicate[Start[k]]) THEN result = predicate[Start[k]]
            ELSE result = Ok(TRUE)

\* a match placed before an erroring element gave Ok(true)
C2_Witness ==
    /\ Finished("try_any")
    /\ result = Ok(TRUE)
    /\ \E i, j \in 1..Len(Start) :
        i < j /\ IsTrue(predicate[Start[i]]) /\ IsErr(predicate[Start[j]])

\* C3: try_position on a finite sequence returns Ok(Some(i)), i the number of
\* elements examined before the first match, all of them Ok(false); Err(e) if
\* the predicate fails before any match; Ok(None) if every element gives
\* Ok(false).
C3_TryPositionResult ==
    Finished("try_position") =>
        LET k == FirstDecisive(Start)
        IN  IF k = 0 THEN result = Ok(None)
            ELSE IF IsErr(predicate[Start[k]]) THEN result = predicate[Start[k]]
            ELSE /\ result = Ok(Some(k - 1))
                 /\ Len(seen) = k
                 /\ \A i \in 1..(k - 1) : IsFalse(predicate[Start[i]])

\* a match found after two non-matching elements
C3_Witness ==
    /\ Finished("try_position")
    /\ result = Ok(Some(2))
    /\ IsFalse(predicate[Start[1]])

\* C4: try_rposition examines from index n-1 down to 0 and returns the
\* forward index of the highest-indexed match, Err(e) if the predicate fails
\* above every match, Ok(None) if every element gives Ok(false).
C4_TryRPositionResult ==
    Finished("try_rposition") =>
        LET n == Len(Start)
            k == FirstDecisive(Reverse(Start))
        IN  IF k = 0 THEN result = Ok(None)
            ELSE IF IsErr(predicate[Start[n + 1 - k]])
                 THEN result = predicate[Start[n + 1 - k]]
            ELSE /\ result = Ok(Some(n - k))
                 /\ IsTrue(predicate[Start[n - k + 1]])
                 /\ \A i \in (n - k + 2)..n : IsFalse(predicate[Start[i]])

\* the last of two matches found at forward index 1 of three elements, the
\* element above it not matching
C4_Witness ==
    /\ Finished("try_rposition")
    /\ Len(Start) = 3
    /\ result = Ok(Some(1))
    /\ IsTrue(predicate[Start[1]])

\* C5: in each of the four methods, a predicate failure on the k-th examined
\* element, no earlier one being decisive, is returned as exactly that error
\* and no element after the k-th in scan order is examined.
C5_ErrorPropagation ==
    (phase \in Terminal /\ kind = "slice") =>
        LET k == FirstDecisive(ScanOrder)
        IN  (k # 0 /\ IsErr(predicate[ScanOrder[k]])) =>
                /\ phase = "Failed"
                /\ result = Err(predicate[ScanOrder[k]].val)
                /\ seen = SubSeq(ScanOrder, 1, k)
                /\ IterLen(ptr, end) = Len(Start) - k

\* try_rposition failed with 7777 on the middle element while the first
\* element, never reached, would have matched
C5_Witness ==
    /\ Finished("try_rposition")
    /\ result = Err(7777)
    /\ Len(Start) = 3
    /\ Len(seen) = 2
    /\ IsTrue(predicate[Start[1]])

\* C6: the predicate is invoked once per element taken, in scan order with
\* none skipped; no examined element but the last is decisive, none at all
\* while the scan goes on; and once the call has returned nothing more is
\* taken from the sequence and the predicate is not invoked again.
C6_State ==
    (kind = "slice" /\ phase # "Idle") =>
        /\ Len(seen) <= Len(ScanOrder)
        /\ seen = SubSeq(ScanOrder, 1, Len(seen))
        /\ IterLen(ptr, end) = Len(Start) - Len(seen)
        /\ \A i \in 1..(Len(seen) - 1) : ~Decisive(op, predicate[seen[i]])
        /\ phase = "Scanning" =>
            \A i \in 1..Len(seen) : ~Decisive(op, predicate[seen[i]])
        /\ (phase \in Terminal /\ Len(seen) < Len(Start)) =>
            Decisive(op, predicate[seen[Len(seen)]])

C6_AfterReturn ==
    phase \in Terminal =>
        /\ ptr' = ptr
        /\ end' = end
        /\ seen' = seen \/ (phase' = "Scanning" /\ seen' = <<>>)

C6_ShortCircuit == [](C6_State) /\ [][C6_AfterReturn]_vars

\* try_any matched on the second element and left elements unexamined
C6_Witness ==
    /\ Finished("try_any")
    /\ result = Ok(TRUE)
    /\ Len(seen) = 2
    /\ Len(Start) > 2

\* C7: on an empty or already exhausted sequence try_all returns Ok(true),
\* try_any Ok(false), try_position and try_rposition Ok(None), whatever the
\* predicate, which is not invoked.
EmptyAtStart == IF kind = "cycle" THEN items = <<>> ELSE ptr0 = end0

C7_EmptySequence ==
    (phase \in Terminal /\ EmptyAtStart) =>
        /\ phase = "Decided"
        /\ seen = <<>>
        /\ op = "try_all" => result = Ok(TRUE)
        /\ op = "try_any" => result = Ok(FALSE)
        /\ op = "try_position" => result = Ok(None)
        /\ op = "try_rposition" => result = Ok(None)

\* try_all returned on an iterator exhausted by earlier calls, with a
\* predicate that fails on every element
C7_Witness ==
    /\ phase \in Terminal
    /\ op = "try_all"
    /\ kind = "slice"
    /\ ptr0 = end0
    /\ ptr0 > 0
    /\ \A x \in Elems : IsErr(predicate[x])

\* C8: a finished scan has advanced the sequence by exactly the elements it
\* examined: the forward methods leave the elements after the k-th examined
\* one, try_rposition returning Ok(Some(i)) leaves the elements of index
\* 0..i-1, and an exhausting scan leaves nothing.
C8_Advance ==
    (phase \in Terminal /\ kind = "slice") =>
        /\ Len(seen) = StopAt
        /\ op # "try_rposition" =>
            /\ ptr = ptr0 + StopAt
            /\ end = end0
            /\ Remaining = SubSeq(Start, StopAt + 1, Len(Start))
        /\ op = "try_rposition" =>
            /\ ptr = ptr0
            /\ end = end0 - StopAt
            /\ IsSome(result) => Remaining = SubSeq(Start, 1, result.val[1])
        /\ FirstDecisive(ScanOrder) = 0 => Remaining = <<>>

\* try_all stopped on the first of three elements and left the other two
C8_Witness ==
    /\ Finished("try_all")
    /\ Len(Start) = 3
    /\ Len(seen) = 1
    /\ Len(Remaining) = 2

\* C9 as stated: every call of try_all, try_any or try_position, on any
\* sequence the library accepts, leaves Scanning for Decided or Failed (up
\* to the cap of the Enumerate counter).  A cycle over a single element is
\* left out: there a loop iteration returns the iterator to the same state
\* and would show as a stuttering step, not as the loop it is.
C9_RunsToCompletion ==
    (phase = "Scanning" /\ Len(items) # 1)
        ~> (phase \in Terminal \/ count = MaxCount)

\* C9 amended: a call on a finite sequence, or on a cycling one holding an
\* element whose outcome is decisive, leaves Scanning for Decided or Failed,
\* and a call that has returned stays returned.
HasDecisive == \E i \in 1..Len(items) : Decisive(op, predicate[items[i]])

C9_LeavesOnce ==
    phase \in Terminal =>
        \/ phase' = phase /\ result' = result
        \/ phase' = "Scanning" /\ result' = NoResult

C9_FiniteRunsToCompletion ==
    /\ (phase = "Scanning" /\ (kind = "slice" \/ HasDecisive \/ items = <<>>))
           ~> (phase \in Terminal)
    /\ [][C9_LeavesOnce]_vars

\* try_any on a cycle, started past its first element, wrapped around and
\* returned on a match
C9_Witness ==
    /\ kind = "cycle"
    /\ op = "try_any"
    /\ phase = "Decided"
    /\ ptr0 > 0
    /\ ptr <= ptr0
    /\ Len(seen) >= 2

\* C10: each call counts from the elements remaining when it starts:
\* try_position after m elements were taken from the front returns
\* Ok(Some(j)) for the element of original index m + j, try_rposition with r
\* elements remaining returns an index in 0..r-1 relative to the first
\* remaining element, and the counter of a starting call is zero.
C10_IndicesRestart ==
    /\ (phase = "Scanning" /\ seen = <<>>) => count = 0
    /\ (Finished("try_position") /\ IsSome(result)) =>
        LET j == result.val[1]
        IN  /\ ptr0 + j + 1 <= Len(items)
            /\ IsTrue(predicate[items[ptr0 + j + 1]])
            /\ ptr = ptr0 + j + 1
    /\ (Finished("try_rposition") /\ IsSome(result)) =>
        LET i == result.val[1]
        IN  /\ i \in 0..(end0 - ptr0 - 1)
            /\ IsTrue(predicate[items[ptr0 + i + 1]])
            /\ end = ptr0 + i

\* try_position, called after an element was taken from the front, found
\* the element of original index 2 and returned Some(1)
C10_Witness ==
    /\ Finished("try_position")
    /\ ptr0 = 1
    /\ result = Ok(Some(1))
====
